---- MODULE Spec2Model ----
(***************************************************************************)
(* A model of the caching / resilience core of the Japanese analyzer       *)
(* backend:                                                                *)
(*   - EnhancedLRUCache            (backend/enhanced-cache.js)             *)
(*   - getDefinitionAdvanced       (backend/enhanced_server.js)            *)
(*   - executeWithCircuitBreaker   (backend/request-optimizer.js)          *)
(* JavaScript Maps are modelled as sequences of entries in insertion       *)
(* order: Map.set of a stored key keeps its position, Map.set of a new key *)
(* appends, Map.delete removes.  Date.now() is the variable now.           *)
(***************************************************************************)
EXTENDS Integers, Sequences, FiniteSets, TLC

\* ------------------------------------------------------------------ bounds
MaxTime == 3        \* Date.now() ranges over 1..MaxTime
MaxOps == 3         \* cache operations per behaviour
MaxClock == 5       \* Date.now() ranges over 1..MaxClock for the breaker
MaxCalls == 4       \* executeWithCircuitBreaker calls per behaviour
MaxLookups == 3     \* getDefinitionAdvanced calls per behaviour
MaxErrors == 1      \* failing database queries per behaviour
MaxRequests == 3    \* requests through the deduplication middleware per behaviour
MaxSweepClock == 4  \* Date.now() ranges over 1..MaxSweepClock for the request queue
MaxItems == 4       \* addToBatch calls per behaviour
MaxBatchClock == 3  \* the batch clock stops at MaxBatchClock unless a timer is armed
MaxLen == 3         \* length of the strings given to generateComprehensiveVariants
MaxDirect == 2      \* calls the route handlers make with axios directly, per behaviour
MaxTotal == 20      \* metrics.requests.total ranges over 0..MaxTotal

\* ------------------------------------------------------- cache parameters
\* new EnhancedLRUCache(maxSize, ttl)
maxSize == 2
ttl == 2

\* "" is a key that JavaScript treats as false
Keys == {"", "a", "b"}
Null == [null |-> TRUE]
Values == {[val |-> 1], [val |-> 2]}
\* customTTL: 0 stands for the falsy values (null, 0, omitted)
CustomTTLs == {0, 1}
\* optimize(targetFillRate), in percent; 80 is the default 0.8
FillRates == {50, 80}

VARIABLE now        \* Date.now()

\* enhanced-cache.js: one EnhancedLRUCache
VARIABLES
    cache,          \* this.cache: Map key -> {value, expiry}; the fields created
                    \* and accessed are written and never read by the store
    accessOrder,    \* this.accessOrder: Map key -> last access time
    stats,          \* this.stats: hits, misses, hitRate, evictions, size
    gets,           \* number of get() calls made on the store
    ret,            \* the last completed cache operation and what it returned
    nops,           \* number of cache operations performed
    setsOnly,       \* only set() of new keys has been called since construction
    setSeq          \* the keys of those set() calls, in call order

cacheVars == <<cache, accessOrder, stats, gets, ret, nops, setsOnly, setSeq>>

\* request-optimizer.js: one circuit breaker and the calls made through it
VARIABLES
    breaker,        \* state, failures, lastFailureTime, nextAttempt
    calls,          \* the executeWithCircuitBreaker calls awaiting operation()
    bret,           \* the last call that returned or threw, and how
    ncalls,         \* number of calls made
    consec,         \* failed attempts since the last successful one
    openedAt,       \* the time the breaker last became OPEN
    overlap         \* two calls have awaited their operations at the same time

breakerVars == <<breaker, calls, bret, ncalls, consec, openedAt, overlap>>

\* enhanced_server.js: getDefinitionAdvanced over the definition cache (the
\* store above) and the dictionary database
VARIABLES
    db,             \* the dictionary: entries with the spellings they are found by
    lk,             \* the lookup in progress: where getDefinitionAdvanced stands
    qlog,           \* the database queries of the current (or last) lookup
    lret,           \* what the last finished lookup returned, and from where
    nlook,          \* number of lookups started
    nerr            \* number of database queries that failed

lookupVars == <<db, lk, qlog, lret, nlook, nerr>>

\* request-optimizer.js: the deduplication middleware and its request queue
VARIABLES
    requestQueue,   \* this.requestQueue: Map key -> {promise, timestamp}
    reqs,           \* the requests: what they asked and where they stand
    promises,       \* state of the promise each request created
    nreq,           \* number of requests that have arrived
    swept           \* requests whose queue entry the cleanup removed

dedupVars == <<requestQueue, reqs, promises, nreq, swept>>

\* request-optimizer.js: BatchProcessor, the batch of one type
VARIABLES
    batch,          \* this.batches.get(type): items and the armed timer
    pitems,         \* the promise addToBatch returned for each item
    flights,        \* processBatch calls awaiting their processor
    flushlog,       \* the processor invocations so far: items, time, cause
    nitems,         \* number of addToBatch calls
    failedItems,    \* items of the batches whose processor failed
    addedAt,        \* the time of each addToBatch call
    processor,      \* batch.processor, "none" until the batch object exists
    firstPassed,    \* the processor argument of the first addToBatch call
    passedProcs,    \* the processor arguments of all addToBatch calls
    invoked         \* the function each processor invocation called

batchVars ==
    <<batch, pitems, flights, flushlog, nitems, failedItems, addedAt,
      processor, firstPassed, passedProcs, invoked>>

\* part_006: calls of generateComprehensiveVariants on their own
VARIABLES
    gword,          \* the argument of the last call
    gout,           \* the list it returned
    gcalled         \* the function has been called

variantVars == <<gword, gout, gcalled>>

\* part_006: the calls the route handlers make to a downstream service
\* without executeWithCircuitBreaker
VARIABLE outcall    \* the last such call: its call site, service and outcome

routeVars == <<outcall>>

\* part_005: PerformanceMonitor
VARIABLES
    metrics,        \* this.metrics: requests.total, requests.errors,
                    \* requests.averageResponseTime, memory.percentage
    health          \* what the last getHealthStatus() call returned

monitorVars == <<metrics, health>>

\* ------------------------------------------------------------ Map helpers
MapKeys(m) == {m[i].key : i \in DOMAIN m}
MapHas(m, k) == \E i \in DOMAIN m : m[i].key = k
MapIdx(m, k) == CHOOSE i \in DOMAIN m : m[i].key = k
MapGet(m, k) == m[MapIdx(m, k)]
MapSet(m, e) ==
    IF MapHas(m, e.key) THEN [m EXCEPT ![MapIdx(m, e.key)] = e] ELSE Append(m, e)
MapDelete(m, k) == SelectSeq(m, LAMBDA e : e.key # k)

\* JavaScript truthiness of a key and of a cached value
TruthyKey(k) == k # ""
Truthy(v) == v # Null

\* A store: the two maps and the counters
Store(c, a, s) == [cache |-> c, accessOrder |-> a, stats |-> s]

\* A JavaScript number that is a quotient of two integers, as the fraction in
\* lowest terms.
RECURSIVE Gcd(_, _)
Gcd(a, b) == IF b = 0 THEN a ELSE Gcd(b, a % b)
Ratio(n, d) == [num |-> n \div Gcd(n, d), den |-> d \div Gcd(n, d)]
EmptyStore ==
    Store(<<>>, <<>>, [hits |-> 0, misses |-> 0, hitRate |-> Ratio(0, 1),
                       evictions |-> 0, size |-> 0])

\* ------------------------------------------------------ EnhancedLRUCache
isValid_late(item, t) == t <= item.expiry
isValid(item, t) == t < item.expiry

\* The key evictLRU's loop ends with: the first entry, in iteration order, with
\* the smallest time (time < oldestTime is strict).
OldestKey(a) ==
    LET i == CHOOSE i \in DOMAIN a :
                 /\ \A j \in DOMAIN a : a[i].time <= a[j].time
                 /\ \A j \in 1..(i - 1) : a[j].time > a[i].time
    IN  a[i].key

evictLRU(st) ==
    IF Len(st.accessOrder) = 0 THEN st
    ELSE LET oldestKey == OldestKey(st.accessOrder)
         IN  IF TruthyKey(oldestKey)
             THEN LET c == MapDelete(st.cache, oldestKey)
                  IN  Store(c, MapDelete(st.accessOrder, oldestKey),
                            [st.stats EXCEPT !.evictions = @ + 1, !.size = Len(c)])
             ELSE st

EffectiveTTL(customTTL) == IF customTTL # 0 THEN customTTL ELSE ttl

CacheSet(st, key, value, customTTL, t) ==
    LET expiry == t + EffectiveTTL(customTTL)
        s1 == IF Len(st.cache) >= maxSize /\ ~MapHas(st.cache, key)
              THEN evictLRU(st) ELSE st
        c == MapSet(s1.cache, [key |-> key, value |-> value, expiry |-> expiry])
    IN  Store(c, MapSet(s1.accessOrder, [key |-> key, time |-> t]),
              [s1.stats EXCEPT !.size = Len(c)])

CacheHit(st, key, t) == MapHas(st.cache, key) /\ isValid(MapGet(st.cache, key), t)

\* updateHitRate: (hits / total) * 100, or 0 while total is 0
updateHitRate_stale(s) == s
updateHitRate(s) ==
    LET total == s.hits + s.misses
    IN  [s EXCEPT !.hitRate = IF total > 0 THEN Ratio(s.hits * 100, total)
                              ELSE Ratio(0, 1)]

\* get: the store afterwards, and the value returned
CacheGetStore_noRefresh(st, key, t) ==
    IF CacheHit(st, key, t)
    THEN Store(st.cache, st.accessOrder, updateHitRate([st.stats EXCEPT !.hits = @ + 1]))
    ELSE Store(MapDelete(st.cache, key), MapDelete(st.accessOrder, key),
               updateHitRate([st.stats EXCEPT !.misses = @ + 1]))
CacheGetStore(st, key, t) ==
    IF CacheHit(st, key, t)
    THEN Store(st.cache, MapSet(st.accessOrder, [key |-> key, time |-> t]),
               updateHitRate([st.stats EXCEPT !.hits = @ + 1]))
    ELSE Store(MapDelete(st.cache, key), MapDelete(st.accessOrder, key),
               updateHitRate([st.stats EXCEPT !.misses = @ + 1]))
CacheGetValue(st, key, t) ==
    IF CacheHit(st, key, t) THEN MapGet(st.cache, key).value ELSE Null

CacheHas(st, key, t) == CacheHit(st, key, t)

CacheDelete_orderOnly(st, key) ==
    Store(st.cache, MapDelete(st.accessOrder, key), st.stats)
CacheDelete(st, key) ==
    LET c == MapDelete(st.cache, key)
    IN  Store(c, MapDelete(st.accessOrder, key), [st.stats EXCEPT !.size = Len(c)])

CacheClear(st) == Store(<<>>, <<>>, [st.stats EXCEPT !.size = 0])

Expired(st, t) == {st.cache[i].key : i \in {j \in DOMAIN st.cache : t >= st.cache[j].expiry}}
CacheCleanup(st, t) ==
    LET c == SelectSeq(st.cache, LAMBDA e : ~(t >= e.expiry))
    IN  Store(c, SelectSeq(st.accessOrder, LAMBDA e : e.key \notin Expired(st, t)),
              [st.stats EXCEPT !.size = Len(c)])

RECURSIVE CachePreload(_, _, _)
CachePreload(st, entries, t) ==
    IF entries = <<>> THEN st
    ELSE LET e == Head(entries)
         IN  CachePreload(IF ~CacheHas(st, e.key, t)
                          THEN CacheSet(st, e.key, e.value, 0, t) ELSE st,
                          Tail(entries), t)
RECURSIVE PreloadCount(_, _, _)
PreloadCount(st, entries, t) ==
    IF entries = <<>> THEN 0
    ELSE LET e == Head(entries)
         IN  IF ~CacheHas(st, e.key, t)
             THEN 1 + PreloadCount(CacheSet(st, e.key, e.value, 0, t), Tail(entries), t)
             ELSE PreloadCount(st, Tail(entries), t)

RECURSIVE CacheImportMaps(_, _, _)
CacheImportMaps(st, data, t) ==
    IF data = <<>> THEN st
    ELSE LET item == Head(data)
         IN  CacheImportMaps(
                 IF item.expiry > t
                 THEN Store(MapSet(st.cache, [key |-> item.key, value |-> item.value,
                                              expiry |-> item.expiry]),
                            MapSet(st.accessOrder, [key |-> item.key, time |-> t]),
                            st.stats)
                 ELSE st,
                 Tail(data), t)
CacheImport(st, data, t) ==
    LET s1 == CacheImportMaps(st, data, t)
    IN  Store(s1.cache, s1.accessOrder, [s1.stats EXCEPT !.size = Len(s1.cache)])
ImportCount(data, t) == Len(SelectSeq(data, LAMBDA item : item.expiry > t))

\* Array.prototype.sort with (a, b) => a[1] - b[1]: stable, oldest first
RECURSIVE InsertByTime(_, _)
InsertByTime(sorted, e) ==
    IF sorted = <<>> THEN <<e>>
    ELSE IF sorted[Len(sorted)].time <= e.time THEN Append(sorted, e)
    ELSE Append(InsertByTime(SubSeq(sorted, 1, Len(sorted) - 1), e), sorted[Len(sorted)])
SortByTime_unsorted(a) == a
RECURSIVE SortByTime(_)
SortByTime(a) ==
    IF a = <<>> THEN <<>>
    ELSE InsertByTime(SortByTime(SubSeq(a, 1, Len(a) - 1)), a[Len(a)])

Min(x, y) == IF x <= y THEN x ELSE y
RECURSIVE DeleteFirst(_, _, _)
DeleteFirst(st, sorted, n) ==
    IF n = 0 THEN st
    ELSE DeleteFirst(CacheDelete(st, Head(sorted).key), Tail(sorted), n - 1)
OptimizeCount(st, rate) ==
    LET targetSize == (maxSize * rate) \div 100
    IN  IF Len(st.cache) <= targetSize THEN 0
        ELSE Min(Len(st.cache) - targetSize, Len(st.accessOrder))
CacheOptimize(st, rate) ==
    DeleteFirst(st, SortByTime(st.accessOrder), OptimizeCount(st, rate))

\* -------------------------------------------------- the store as a machine
TheStore == Store(cache, accessOrder, stats)
Result(op, key, val, ok, n) == [op |-> op, key |-> key, val |-> val, ok |-> ok, n |-> n]

Install(st) ==
    /\ cache' = st.cache
    /\ accessOrder' = st.accessOrder
    /\ stats' = st.stats
    /\ nops' = nops + 1

CacheInit ==
    /\ now = 1
    /\ cache = <<>>
    /\ accessOrder = <<>>
    /\ stats = EmptyStore.stats
    /\ gets = 0
    /\ ret = Result("new", "", Null, FALSE, 0)
    /\ nops = 0
    /\ setsOnly = TRUE
    /\ setSeq = <<>>

Tick ==
    /\ now < MaxTime
    /\ now' = now + 1
    /\ UNCHANGED cacheVars

Set ==
    /\ nops < MaxOps
    /\ \E key \in Keys, value \in Values, customTTL \in CustomTTLs :
          /\ Install(CacheSet(TheStore, key, value, customTTL, now))
          /\ ret' = Result("set", key, value, TRUE, EffectiveTTL(customTTL))
          /\ setsOnly' = (setsOnly /\ ~MapHas(cache, key))
          /\ setSeq' = IF setsOnly' THEN Append(setSeq, key) ELSE <<>>
    /\ UNCHANGED <<now, gets>>

Get ==
    /\ nops < MaxOps
    /\ \E key \in Keys :
          /\ Install(CacheGetStore(TheStore, key, now))
          /\ ret' = Result("get", key, CacheGetValue(TheStore, key, now),
                           CacheHit(TheStore, key, now), 0)
    /\ setsOnly' = FALSE /\ setSeq' = <<>>
    /\ gets' = gets + 1
    /\ UNCHANGED now

Has ==
    /\ nops < MaxOps
    /\ \E key \in Keys :
          /\ Install(TheStore)
          /\ ret' = Result("has", key, Null, CacheHas(TheStore, key, now), 0)
    /\ setsOnly' = FALSE /\ setSeq' = <<>>
    /\ UNCHANGED <<now, gets>>

Delete ==
    /\ nops < MaxOps
    /\ \E key \in Keys :
          /\ Install(CacheDelete(TheStore, key))
          /\ ret' = Result("delete", key, Null, MapHas(cache, key), 0)
    /\ setsOnly' = FALSE /\ setSeq' = <<>>
    /\ UNCHANGED <<now, gets>>

Clear ==
    /\ nops < MaxOps
    /\ Install(CacheClear(TheStore))
    /\ ret' = Result("clear", "", Null, TRUE, 0)
    /\ setsOnly' = FALSE /\ setSeq' = <<>>
    /\ UNCHANGED <<now, gets>>

Cleanup ==
    /\ nops < MaxOps
    /\ Install(CacheCleanup(TheStore, now))
    /\ ret' = Result("cleanup", "", Null, TRUE, Cardinality(Expired(TheStore, now)))
    /\ setsOnly' = FALSE /\ setSeq' = <<>>
    /\ UNCHANGED <<now, gets>>

\* the lists given to preload and import: one item, or two items with
\* different keys
Lists(S) == [{1} -> S] \cup {l \in [{1, 2} -> S] : l[1].key # l[2].key}
PreloadLists == Lists([key : Keys, value : {[val |-> 1]}])
\* a backup holds entries that have expired by time t and entries that have not
ImportLists(t) ==
    {l \in Lists([key : Keys, value : {[val |-> 1]}, expiry : {t, t + 1}]) :
        Len(l) = 2 => \A i \in {1, 2} : l[i].expiry > t}

Preload ==
    /\ nops < MaxOps
    /\ \E entries \in PreloadLists :
          /\ Install(CachePreload(TheStore, entries, now))
          /\ ret' = Result("preload", "", entries, TRUE, PreloadCount(TheStore, entries, now))
    /\ setsOnly' = FALSE /\ setSeq' = <<>>
    /\ UNCHANGED <<now, gets>>

Import ==
    /\ nops < MaxOps
    /\ \E data \in ImportLists(now) :
          /\ Install(CacheImport(TheStore, data, now))
          /\ ret' = Result("import", "", Null, TRUE, ImportCount(data, now))
    /\ setsOnly' = FALSE /\ setSeq' = <<>>
    /\ UNCHANGED <<now, gets>>

Optimize ==
    /\ nops < MaxOps
    /\ \E rate \in FillRates :
          /\ Install(CacheOptimize(TheStore, rate))
          /\ ret' = Result("optimize", "", rate, TRUE, OptimizeCount(TheStore, rate))
    /\ setsOnly' = FALSE /\ setSeq' = <<>>
    /\ UNCHANGED <<now, gets>>

\* ------------------------------------------- RequestOptimizer: breaker
\* createCircuitBreaker(serviceName, {failureThreshold, resetTimeout})
failureThreshold == 2
resetTimeout == 2
Slots == {1, 2}

NewBreaker == [state |-> "CLOSED", failures |-> 0, lastFailureTime |-> 0, nextAttempt |-> 0]
Idle == [pc |-> "idle", start |-> 0, fallback |-> FALSE, probe |-> FALSE, seen |-> "none"]
\* how a call ended: attempted says whether operation() was invoked
Outcome(how, fb, attempted) == [how |-> how, fallback |-> fb, attempted |-> attempted]

BreakerInit ==
    /\ breaker = NewBreaker
    /\ calls = [i \in Slots |-> Idle]
    /\ bret = Outcome("none", FALSE, FALSE)
    /\ ncalls = 0
    /\ consec = 0
    /\ openedAt = 0
    /\ overlap = FALSE

Running == {i \in Slots : calls[i].pc = "running"}
FreeSlot == CHOOSE i \in Slots : calls[i].pc = "idle" /\ \A j \in Slots : calls[j].pc = "idle" => i <= j

\* the call is refused without invoking operation()
ShortCircuit_early(b, t) == b.state = "OPEN" /\ t + 1 < b.nextAttempt
ShortCircuit(b, t) == b.state = "OPEN" /\ t < b.nextAttempt

\* lines 170-179: the breaker after the state check of an admitted call
Admit(b) == IF b.state = "OPEN" THEN [b EXCEPT !.state = "HALF_OPEN"] ELSE b

\* lines 185-189: operation() resolved
OnSuccess_keepCount(b) ==
    IF b.state = "HALF_OPEN" THEN [b EXCEPT !.state = "CLOSED"] ELSE b
OnSuccess(b) ==
    IF b.state = "HALF_OPEN" THEN [b EXCEPT !.state = "CLOSED", !.failures = 0] ELSE b

\* lines 193-200: operation() rejected, in a call that read Date.now() as t
OnFailure_uncounted(b, t) ==
    IF b.failures + 1 >= failureThreshold
    THEN [b EXCEPT !.lastFailureTime = t, !.state = "OPEN", !.nextAttempt = t + resetTimeout]
    ELSE [b EXCEPT !.lastFailureTime = t]
OnFailure(b, t) ==
    LET b1 == [b EXCEPT !.failures = @ + 1, !.lastFailureTime = t]
    IN  IF b1.failures >= failureThreshold
        THEN [b1 EXCEPT !.state = "OPEN", !.nextAttempt = t + resetTimeout]
        ELSE b1

\* await fallback(): the fallback returns or throws
FallbackOutcomes == {"fallback", "fallbackError"}

BreakerTick ==
    /\ now < MaxClock
    /\ now' = now + 1
    /\ UNCHANGED breakerVars

\* executeWithCircuitBreaker up to its first await
CallRefused ==
    /\ ncalls < MaxCalls
    /\ ShortCircuit(breaker, now)
    /\ \E fb \in BOOLEAN :
          \E how \in (IF fb THEN FallbackOutcomes ELSE {"unavailable"}) :
              bret' = Outcome(how, fb, FALSE)
    /\ ncalls' = ncalls + 1
    /\ UNCHANGED <<now, breaker, calls, consec, openedAt, overlap>>

CallAdmitted ==
    /\ ncalls < MaxCalls
    /\ \E i \in Slots : calls[i].pc = "idle"
    /\ ~ShortCircuit(breaker, now)
    /\ \E fb \in BOOLEAN :
          calls' = [calls EXCEPT ![FreeSlot] =
                       [pc |-> "running", start |-> now, fallback |-> fb,
                        probe |-> (breaker.state = "OPEN"),
                        seen |-> Admit(breaker).state]]
    /\ breaker' = Admit(breaker)
    /\ bret' = Outcome("pending", FALSE, TRUE)
    /\ ncalls' = ncalls + 1
    /\ overlap' = (overlap \/ Running # {})
    /\ UNCHANGED <<now, consec, openedAt>>

\* operation() resolves: the rest of the try block
Succeed ==
    /\ \E i \in Running :
          /\ breaker' = OnSuccess(breaker)
          /\ bret' = Outcome("result", calls[i].fallback, TRUE)
          /\ calls' = [calls EXCEPT ![i] = Idle]
    /\ consec' = 0
    /\ UNCHANGED <<now, ncalls, openedAt, overlap>>

\* operation() rejects: the catch block
Fail ==
    /\ \E i \in Running :
          /\ breaker' = OnFailure(breaker, calls[i].start)
          /\ \E how \in (IF calls[i].fallback THEN FallbackOutcomes ELSE {"error"}) :
                bret' = Outcome(how, calls[i].fallback, TRUE)
          /\ calls' = [calls EXCEPT ![i] = Idle]
    /\ consec' = consec + 1
    /\ openedAt' = IF breaker'.state = "OPEN" /\ breaker.state # "OPEN" THEN now ELSE openedAt
    /\ UNCHANGED <<now, ncalls, overlap>>

\* --------------------------------------------- routes calling axios directly
\* the axios.post calls of part_006 outside executeWithCircuitBreaker: the
\* second call of /api/test-segmentation follows the first one's success
CallSites == {
    [site |-> "analyze-image", service |-> "ocr"],
    [site |-> "debug-lookup", service |-> "parser"],
    [site |-> "test-segmentation:1", service |-> "parser"],
    [site |-> "test-segmentation:2", service |-> "parser"] }

\* createCircuitBreaker('ocr', ...): executeWithCircuitBreaker is never called
\* with 'ocr', so this breaker stays as created
ocrCircuitBreaker == NewBreaker
BreakerOf(service, parser) == IF service = "parser" THEN parser ELSE ocrCircuitBreaker

NoCall == [site |-> "none", service |-> "none", failed |-> FALSE, n |-> 0]
RouteInit == outcall = NoCall

\* await axios.post(...): the service answers, or the call fails and the
\* handler's catch block logs it
DirectCall ==
    /\ outcall.n < MaxDirect
    /\ \E c \in CallSites, failed \in BOOLEAN :
          /\ c.site = "test-segmentation:2"
             => outcall.site = "test-segmentation:1" /\ ~outcall.failed
          /\ outcall' = [site |-> c.site, service |-> c.service, failed |-> failed,
                         n |-> outcall.n + 1]
    /\ UNCHANGED <<now, breakerVars>>

\* --------------------------------------------- PerformanceMonitor
\* a JavaScript number r compared with an integer: r > n
Greater_orEqual(r, n) == r.num >= n * r.den
Greater(r, n) == r.num > n * r.den

\* memory.percentage is rounded to two decimals; averageResponseTime is the
\* mean of the recorded durations
Percentages == {Ratio(0, 1), Ratio(80, 1), Ratio(8001, 100), Ratio(90, 1), Ratio(9001, 100)}
AvgTimes == {Ratio(0, 1), Ratio(5000, 1), Ratio(10001, 2), Ratio(10000, 1), Ratio(30001, 3)}
NewMetrics == [total |-> 0, errors |-> 0, averageResponseTime |-> Ratio(0, 1),
               percentage |-> Ratio(0, 1)]
\* the metrics after any requests and memory samples: no request recorded
\* means no error and an average of 0
Metrics ==
    {m \in [total : 0..MaxTotal, errors : 0..MaxTotal,
            averageResponseTime : AvgTimes, percentage : Percentages] :
        /\ m.errors <= m.total
        /\ m.total = 0 => m.averageResponseTime = Ratio(0, 1)}

getErrorRate(m) == IF m.total > 0 THEN Ratio(m.errors * 100, m.total) ELSE Ratio(0, 1)

getHealthStatus(m) ==
    LET errorRate == getErrorRate(m)
        memoryUsage == m.percentage
        avgResponseTime == m.averageResponseTime
    IN  IF Greater(errorRate, 10) \/ Greater(memoryUsage, 90) \/ Greater(avgResponseTime, 10000)
        THEN "critical"
        ELSE IF Greater(errorRate, 5) \/ Greater(memoryUsage, 80) \/ Greater(avgResponseTime, 5000)
        THEN "warning"
        ELSE "healthy"

\* new PerformanceMonitor()
MonitorInit == metrics = NewMetrics /\ health = "none"

HealthCheck ==
    /\ health' = getHealthStatus(metrics)
    /\ UNCHANGED metrics

\* --------------------------------------------- variant lookup pipeline
\* Words are sequences of characters.  Hiragana are written in lower case,
\* katakana in upper case, kanji as K_<reading>:
\*   K_to 取   K_nozo 除   K_ta 食   K_nani 何   xtu っ
W_torinozoite == <<"K_to", "ri", "K_nozo", "i", "te">>      \* 取り除いて
W_torinozoku == <<"K_to", "ri", "K_nozo", "ku">>            \* 取り除く
W_torinozoi == <<"K_to", "ri", "K_nozo", "i">>              \* 取り除い
W_torinozoka == <<"K_to", "ri", "K_nozo", "ka">>            \* 取り除か
W_torinozoke == <<"K_to", "ri", "K_nozo", "ke">>            \* 取り除け
W_torinozoiteiru == <<"K_to", "ri", "K_nozo", "i", "te", "i", "ru">>  \* 取り除いている
W_tabeta == <<"K_ta", "be", "ta">>                          \* 食べた
W_taberu == <<"K_ta", "be", "ru">>                          \* 食べる
W_ha == <<"ha">>                                            \* は
W_mo == <<"mo">>                                            \* も
W_toshite == <<"to", "si", "te">>                           \* として

Range(f) == {f[i] : i \in DOMAIN f}
EndsWith(w, s) == Len(w) >= Len(s) /\ SubSeq(w, Len(w) - Len(s) + 1, Len(w)) = s
StartsWith(w, s) == Len(w) >= Len(s) /\ SubSeq(w, 1, Len(s)) = s
DropLast(w, n) == SubSeq(w, 1, Len(w) - n)
DropFirst(w, n) == SubSeq(w, n + 1, Len(w))
Take(w, n) == SubSeq(w, 1, Min(n, Len(w)))

\* Set.add on a Set kept in insertion order
Add_again(vs, v) == Append(vs, v)
Add(vs, v) == IF v \in Range(vs) THEN vs ELSE Append(vs, v)
RECURSIVE AddAll(_, _)
AddAll(vs, list) == IF list = <<>> THEN vs ELSE AddAll(Add(vs, Head(list)), Tail(list))

\* comprehensiveVariantMappings: the entries that mention a word of this model
comprehensiveVariantMappings == <<
    [base |-> W_torinozoku,
     variants |-> <<W_torinozoku, W_torinozoite, W_torinozoi, <<"te">>,
                    W_torinozoka, W_torinozoke>>],
    [base |-> W_torinozoite,
     variants |-> <<W_torinozoite, W_torinozoku, W_torinozoi, <<"te">>>>],
    [base |-> W_mo, variants |-> <<W_mo>>],
    [base |-> W_toshite, variants |-> <<W_toshite, <<"to">>, <<"si", "te">>>>] >>

DirectVariants(word) ==
    IF \E i \in DOMAIN comprehensiveVariantMappings :
           comprehensiveVariantMappings[i].base = word
    THEN (LET i == CHOOSE i \in DOMAIN comprehensiveVariantMappings :
                       comprehensiveVariantMappings[i].base = word
          IN  comprehensiveVariantMappings[i].variants)
    ELSE <<>>

\* reverseVariantMappings.get(word): for each base, in table order, that lists
\* word as a variant: all its variants, then the base
RECURSIVE ReverseFrom(_, _)
ReverseFrom(word, i) ==
    IF i > Len(comprehensiveVariantMappings) THEN <<>>
    ELSE LET m == comprehensiveVariantMappings[i]
         IN  (IF word \in Range(m.variants) THEN Append(m.variants, m.base) ELSE <<>>)
             \o ReverseFrom(word, i + 1)
ReverseVariants(word) == AddAll(<<>>, ReverseFrom(word, 1))

\* wanakana: the kana of this model
Hiragana == {"ri", "i", "te", "ku", "ka", "ke", "ru", "be", "ta", "ha", "mo", "to",
             "si", "de", "na", "ma", "su", "xtu", "n", "ga", "wo", "ni", "ra"}
Katakana == {"RI", "I", "TE", "KU", "KA", "KE", "RU", "BE", "TA", "HA", "MO", "TO",
             "SI", "DE", "NA", "MA", "SU", "XTU", "N", "GA", "WO", "NI", "RA"}
KanaPairs == {<<"ri", "RI">>, <<"i", "I">>, <<"te", "TE">>, <<"ku", "KU">>,
              <<"ka", "KA">>, <<"ke", "KE">>, <<"ru", "RU">>, <<"be", "BE">>,
              <<"ta", "TA">>, <<"ha", "HA">>, <<"mo", "MO">>, <<"to", "TO">>,
              <<"si", "SI">>, <<"de", "DE">>, <<"na", "NA">>, <<"ma", "MA">>,
              <<"su", "SU">>, <<"xtu", "XTU">>, <<"n", "N">>, <<"ga", "GA">>,
              <<"wo", "WO">>, <<"ni", "NI">>, <<"ra", "RA">>}
isHiragana(w) == w # <<>> /\ \A i \in DOMAIN w : w[i] \in Hiragana
isKatakana(w) == w # <<>> /\ \A i \in DOMAIN w : w[i] \in Katakana
toKatakana(w) ==
    [i \in DOMAIN w |-> IF w[i] \in Hiragana
                        THEN (CHOOSE p \in KanaPairs : p[1] = w[i])[2] ELSE w[i]]
toHiragana(w) ==
    [i \in DOMAIN w |-> IF w[i] \in Katakana
                        THEN (CHOOSE p \in KanaPairs : p[2] = w[i])[1] ELSE w[i]]

\* step 2: hiragana / katakana conversion
ScriptVariants(word) ==
    (IF isHiragana(word) THEN <<toKatakana(word)>> ELSE <<>>)
    \o (IF isKatakana(word) THEN <<toHiragana(word)>> ELSE <<>>)

\* /^(.+り)(.+)$/: the greedy split after the last り that leaves both parts
\* non-empty and has a character before it
RiSplit(word) ==
    LET cuts == {i \in 2..(Len(word) - 1) : word[i] = "ri"}
    IN  IF cuts = {} THEN <<>>
        ELSE LET i == CHOOSE i \in cuts : \A j \in cuts : j <= i
             IN  <<SubSeq(word, 1, i), DropFirst(word, i)>>
\* /^(.+)XY$/: the part before a two-character ending
Before(word, ending) ==
    IF Len(word) > Len(ending) /\ EndsWith(word, ending)
    THEN <<DropLast(word, Len(ending))>> ELSE <<>>

\* step 3: inflection patterns, for words longer than 2 characters
InflectionVariants(word) ==
    IF Len(word) > 2
    THEN (IF EndsWith(word, <<"te">>)
          THEN LET stem == DropLast(word, 1)
               IN  <<stem \o <<"de">>, stem>>
                   \o (IF EndsWith(stem, <<"i">>) THEN <<DropLast(stem, 1) \o <<"ku">>>> ELSE <<>>)
                   \o <<stem \o <<"ru">>, stem \o <<"ta">>, stem \o <<"na", "i">>,
                        stem \o <<"ma", "su">>>>
          ELSE <<>>)
         \o (IF EndsWith(word, <<"de">>)
             THEN <<DropLast(word, 1) \o <<"te">>, DropLast(word, 1)>> ELSE <<>>)
         \o (IF EndsWith(word, <<"ta">>)
             THEN <<DropLast(word, 1) \o <<"te">>, DropLast(word, 1) \o <<"ru">>,
                    DropLast(word, 1)>>
             ELSE <<>>)
         \o (IF EndsWith(word, <<"i">>)
             THEN <<DropLast(word, 1) \o <<"ku">>, DropLast(word, 1) \o <<"ka", "xtu", "ta">>,
                    DropLast(word, 1) \o <<"ku", "na", "i">>>>
             ELSE <<>>)
         \o RiSplit(word)
         \o Before(word, <<"si", "te">>)
         \o Before(word, <<"i", "te">>)
         \o Before(word, <<"xtu", "te">>)
    ELSE <<>>

\* step 4: trailing particles
particleCombinations ==
    << <<"mo">>, <<"ha">>, <<"ga">>, <<"wo">>, <<"ni">>, <<"de">>, <<"to">>,
       <<"ka", "ra">>, <<"ma", "de">> >>
RECURSIVE ParticleFrom(_, _)
ParticleFrom(word, i) ==
    IF i > Len(particleCombinations) THEN <<>>
    ELSE LET particle == particleCombinations[i]
         IN  (IF EndsWith(word, particle) /\ Len(word) > Len(particle)
              THEN <<DropLast(word, Len(particle))>> ELSE <<>>)
             \o <<word \o particle>>
             \o ParticleFrom(word, i + 1)
ParticleVariants(word) == ParticleFrom(word, 1)

\* steps 5 and 6: なん- prefix and -んな suffix
NanVariants(word) ==
    IF StartsWith(word, <<"na", "n">>)
    THEN LET suffix == DropFirst(word, 2)
         IN  <<<<"K_nani">> \o suffix, <<"na", "n">>>>
             \o (IF suffix # <<>> THEN <<suffix>> ELSE <<>>)
    ELSE <<>>
NnaVariants(word) ==
    IF EndsWith(word, <<"n", "na">>)
    THEN LET prefix == DropLast(word, 2)
         IN  <<prefix \o <<"na">>, prefix, <<"n", "na">>>>
    ELSE <<>>

generateComprehensiveVariants(word) ==
    SelectSeq(AddAll(<<word>>,
                     DirectVariants(word) \o ReverseVariants(word)
                     \o ScriptVariants(word) \o InflectionVariants(word)
                     \o ParticleVariants(word) \o NanVariants(word)
                     \o NnaVariants(word)),
              LAMBDA v : Len(v) > 0)

\* the strings of the exact tier: [word, ...searchVariants.slice(0, 5)]
TopN == 5
ExactTier_noOriginal(word) == Take(generateComprehensiveVariants(word), TopN)
ExactTier(word) == <<word>> \o Take(generateComprehensiveVariants(word), TopN)

\* the words generateComprehensiveVariants is called with on its own: the
\* words of the lookups, and every string of at most MaxLen of these characters
Chars == {"n", "na", "te", "ri", "K_to"}
RECURSIVE Strings(_)
Strings(n) ==
    IF n = 0 THEN {<<>>}
    ELSE LET shorter == Strings(n - 1)
         IN  shorter \cup {Append(w, c) : w \in {x \in shorter : Len(x) = n - 1}, c \in Chars}
GenWords == Strings(MaxLen) \cup {W_torinozoite, W_torinozoku, W_tabeta, W_ha}

VariantInit ==
    /\ gword = <<>>
    /\ gout = <<>>
    /\ gcalled = FALSE

\* one call of generateComprehensiveVariants(word)
Generate ==
    /\ \E word \in GenWords :
          /\ gword' = word
          /\ gout' = generateComprehensiveVariants(word)
    /\ gcalled' = TRUE

\* particleDefinitions
Particles == {<<"ha">>, <<"ga">>, <<"wo">>, <<"ni">>, <<"de">>, <<"to">>, <<"mo">>,
              <<"ka", "ra">>, <<"ma", "de">>}
Definition_matchedAsQuery(originalQuery, foundVia, entryId) ==
    [originalQuery |-> foundVia, foundVia |-> foundVia, entryId |-> entryId]
Definition(originalQuery, foundVia, entryId) ==
    [originalQuery |-> originalQuery, foundVia |-> foundVia, entryId |-> entryId]
ParticleDefinition(word) == Definition(word, <<"particle_handling">>, 0)

\* the dictionary: an entry is found by an exact query for one of its values
\* and by the fuzzy query for any string one of its values contains
E_torinozoku == [id |-> 1, values |-> {W_torinozoku}]
E_torinozoiteiru == [id |-> 2, values |-> {W_torinozoiteiru}]
E_taberu == [id |-> 3, values |-> {W_taberu}]
Dictionaries == {{}, {E_torinozoiteiru}, {E_torinozoku, E_taberu}}
Words == {W_torinozoite, W_torinozoku, W_tabeta, W_ha}

Contains(value, word) ==
    \E i \in 0..(Len(value) - Len(word)) : SubSeq(value, i + 1, i + Len(word)) = word
ExactRows(d, variant) == {e \in d : variant \in e.values}
\* LIKE '%word%' OR LIKE 'word%': the entries and the value that matched
FuzzyRows(d, word) ==
    {[entry_id |-> e.id, matched_value |-> v] : e \in d, v \in UNION {x.values : x \in d}}
    \cap {r \in [entry_id : {e.id : e \in d}, matched_value : UNION {x.values : x \in d}] :
             /\ Contains(r.matched_value, word)
             /\ \E e \in d : e.id = r.entry_id /\ r.matched_value \in e.values}

Query(kind, arg, hit, failed) == [kind |-> kind, arg |-> arg, hit |-> hit, failed |-> failed]
LookupIdle == [pc |-> "done", word |-> <<>>, tier |-> <<>>, idx |-> 0,
               entryId |-> 0, matched |-> <<>>, via |-> "none"]
Returned(word, result, how) == [word |-> word, result |-> result, how |-> how]

LookupInit ==
    /\ db \in Dictionaries
    /\ lk = LookupIdle
    /\ qlog = <<>>
    /\ lret = Returned(<<>>, Null, "none")
    /\ nlook = 0
    /\ nerr = 0

PutStore(st) ==
    /\ cache' = st.cache
    /\ accessOrder' = st.accessOrder
    /\ stats' = st.stats
    /\ UNCHANGED <<ret, nops, setsOnly, setSeq>>

\* buildDefinitionFromEntry, lines 720-724: cache the record under the
\* original word and under the matched variant
CacheBoth(st, originalWord, matchedVariant, result, t) ==
    LET s1 == CacheSet(st, originalWord, result, 0, t)
    IN  IF matchedVariant # originalWord
        THEN CacheSet(s1, matchedVariant, result, 0, t) ELSE s1

\* lines 478-621: the cache check, the particle table, the variants
LookupStart ==
    /\ lk.pc = "done"
    /\ nlook < MaxLookups
    /\ nlook' = nlook + 1
    /\ gets' = gets + 1
    /\ qlog' = <<>>
    /\ \E word \in Words :
          LET cachedResult == CacheGetValue(TheStore, word, now)
              s1 == CacheGetStore(TheStore, word, now)
          IN  IF Truthy(cachedResult)
              THEN /\ PutStore(s1)
                   /\ lret' = Returned(word, cachedResult, "cache")
                   /\ lk' = LookupIdle
              ELSE IF word \in Particles
              THEN /\ PutStore(CacheSet(s1, word, ParticleDefinition(word), 0, now))
                   /\ lret' = Returned(word, ParticleDefinition(word), "particle")
                   /\ lk' = LookupIdle
              ELSE /\ PutStore(s1)
                   /\ lret' = Returned(word, Null, "pending")
                   /\ lk' = [LookupIdle EXCEPT !.pc = "exact", !.word = word,
                                               !.tier = ExactTier(word), !.idx = 1]
    /\ UNCHANGED <<now, db, nerr>>

\* where the lookup goes after the exact-tier string at lk.idx gave no definition
AfterExact == IF lk.idx < Len(lk.tier)
              THEN [lk EXCEPT !.pc = "exact", !.idx = @ + 1]
              ELSE [lk EXCEPT !.pc = "fuzzy"]

\* lines 624-643: one exact query
ExactQuery ==
    /\ lk.pc = "exact"
    /\ LET variant == lk.tier[lk.idx]
       IN  \/ /\ ExactRows(db, variant) = {}
              /\ qlog' = Append(qlog, Query("exact", variant, FALSE, FALSE))
              /\ lk' = AfterExact
              /\ UNCHANGED <<lret, nerr>>
           \/ /\ \E e \in ExactRows(db, variant) :
                    lk' = [lk EXCEPT !.pc = "build", !.entryId = e.id,
                                     !.matched = variant, !.via = "exact"]
              /\ qlog' = Append(qlog, Query("exact", variant, TRUE, FALSE))
              /\ UNCHANGED <<lret, nerr>>
           \/ /\ nerr < MaxErrors
              /\ nerr' = nerr + 1
              /\ qlog' = Append(qlog, Query("exact", variant, FALSE, TRUE))
              /\ lret' = Returned(lk.word, Null, "error")
              /\ lk' = LookupIdle
    /\ UNCHANGED <<now, cacheVars, db, nlook>>

\* lines 671-673: nothing found
NegativeCache ==
    /\ PutStore(CacheSet(TheStore, lk.word, Null, 0, now))
    /\ UNCHANGED gets
    /\ lret' = Returned(lk.word, Null, "absent")
    /\ lk' = LookupIdle

\* lines 681-732: buildDefinitionFromEntry, and what its caller does with null
BuildDefinition ==
    /\ lk.pc = "build"
    /\ \/ /\ qlog' = Append(qlog, Query("entry", lk.matched, TRUE, FALSE))
          /\ LET result == Definition(lk.word, lk.matched, lk.entryId)
             IN  /\ PutStore(CacheBoth(TheStore, lk.word, lk.matched, result, now))
                 /\ UNCHANGED gets
                 /\ lret' = Returned(lk.word, result, lk.via)
          /\ lk' = LookupIdle
          /\ UNCHANGED nerr
       \/ /\ nerr < MaxErrors
          /\ nerr' = nerr + 1
          /\ qlog' = Append(qlog, Query("entry", lk.matched, FALSE, TRUE))
          /\ IF lk.via = "exact"
             THEN lk' = AfterExact /\ UNCHANGED <<cacheVars, lret>>
             ELSE NegativeCache
    /\ UNCHANGED <<now, db, nlook>>

\* lines 645-673: the fuzzy query
FuzzyQuery ==
    /\ lk.pc = "fuzzy"
    /\ \/ /\ FuzzyRows(db, lk.word) = {}
          /\ qlog' = Append(qlog, Query("fuzzy", lk.word, FALSE, FALSE))
          /\ NegativeCache
          /\ UNCHANGED nerr
       \/ /\ \E r \in FuzzyRows(db, lk.word) :
                lk' = [lk EXCEPT !.pc = "build", !.entryId = r.entry_id,
                                 !.matched = r.matched_value, !.via = "fuzzy"]
          /\ qlog' = Append(qlog, Query("fuzzy", lk.word, TRUE, FALSE))
          /\ UNCHANGED <<cacheVars, lret, nerr>>
       \/ /\ nerr < MaxErrors
          /\ nerr' = nerr + 1
          /\ qlog' = Append(qlog, Query("fuzzy", lk.word, FALSE, TRUE))
          /\ lret' = Returned(lk.word, Null, "error")
          /\ lk' = LookupIdle
          /\ UNCHANGED cacheVars
    /\ UNCHANGED <<now, db, nlook>>

\* ------------------------------------------- request deduplication
\* A request: method, path and the body parameter its handler reads.
Methods == {"POST"}
Paths == {"/api/full-analysis", "/api/semantic-search"}
Params == {"p1", "p2"}
Requests == [method : Methods, path : Paths, param : Params]
RequestIds == 1..MaxRequests

\* extractCriticalParams: JSON.stringify of the parameters kept for the path
extractCriticalParams(req) ==
    CASE req.path = "/api/full-analysis" -> <<"text", req.param>>
      [] req.path = "/api/debug-lookup" -> <<"word", req.param>>
      [] OTHER -> <<>>
generateRequestKey(req) == <<req.method, req.path, extractCriticalParams(req)>>

\* startCleanupProcess: maxAge, in clock ticks
maxAge == 2

NoRequest == [state |-> "none", req |-> [method |-> "", path |-> "", param |-> ""],
              owner |-> 0, response |-> "none"]

\* this.requestQueue.get(key): is a request with this key registered
existingRequest_never(queue, key) == FALSE
existingRequest(queue, key) == MapHas(queue, key)

DedupInit ==
    /\ requestQueue = <<>>
    /\ reqs = [i \in RequestIds |-> NoRequest]
    /\ promises = [i \in RequestIds |-> "none"]
    /\ nreq = 0
    /\ swept = {}

SweepTick ==
    /\ now < MaxSweepClock
    /\ now' = now + 1
    /\ UNCHANGED dedupVars

\* the middleware, lines 86-119: a request arrives
Arrive ==
    /\ nreq < MaxRequests
    /\ nreq' = nreq + 1
    /\ \E req \in Requests :
          LET key == generateRequestKey(req)
              id == nreq + 1
          IN  IF existingRequest(requestQueue, key)
              THEN \* wait for the registered promise; next() is not called
                   /\ reqs' = [reqs EXCEPT ![id] =
                                  [state |-> "waiting", req |-> req,
                                   owner |-> MapGet(requestQueue, key).promise,
                                   response |-> "none"]]
                   /\ UNCHANGED <<requestQueue, promises>>
              ELSE \* register a new promise, hook res.end, call next()
                   /\ requestQueue' = MapSet(requestQueue,
                                             [key |-> key, promise |-> id, timestamp |-> now])
                   /\ promises' = [promises EXCEPT ![id] = "pending"]
                   /\ reqs' = [reqs EXCEPT ![id] =
                                  [state |-> "running", req |-> req, owner |-> id,
                                   response |-> "none"]]
    /\ UNCHANGED <<now, swept>>

\* lines 112-116: the handler ends the response of a request that ran
Complete ==
    /\ \E id \in RequestIds :
          /\ reqs[id].state = "running"
          /\ requestQueue' = MapDelete(requestQueue, generateRequestKey(reqs[id].req))
          /\ \E status \in {"ok", "error"} :
                reqs' = [reqs EXCEPT ![id].state = "done",
                                     ![id].response = <<status, id>>]
    /\ UNCHANGED <<now, promises, nreq, swept>>

\* startCleanupProcess, lines 213-222: one run of the interval callback
Stale(entry, t) == t - entry.timestamp > maxAge
RECURSIVE SweepQueue(_, _)
SweepQueue(queue, t) ==
    IF queue = <<>> THEN <<>>
    ELSE (IF Stale(Head(queue), t) THEN <<>> ELSE <<Head(queue)>>)
         \o SweepQueue(Tail(queue), t)
Sweep ==
    /\ \E i \in DOMAIN requestQueue : Stale(requestQueue[i], now)
    /\ requestQueue' = SweepQueue(requestQueue, now)
    /\ swept' = swept \cup {requestQueue[i].promise :
                               i \in {j \in DOMAIN requestQueue : Stale(requestQueue[j], now)}}
    /\ UNCHANGED <<now, reqs, promises, nreq>>

\* ------------------------------------------------------ batch processor
\* BatchProcessor.constructor: maxBatchSize items, batchTimeout clock ticks
maxBatchSize == 3
batchTimeout == 2
ItemIds == 1..MaxItems
\* the functions callers pass as the processor argument
Processors == {"processA", "processB"}

\* the promise of an item: state and, once resolved, the result it got
NoPromise == [state |-> "none", batch |-> 0, pos |-> 0]
Pending == [state |-> "pending", batch |-> 0, pos |-> 0]
Flush(its, cause, t) == [items |-> its, cause |-> cause, at |-> t]

BatchInit ==
    /\ batch = [items |-> <<>>, timeout |-> 0]
    /\ pitems = [i \in ItemIds |-> NoPromise]
    /\ flights = {}
    /\ flushlog = <<>>
    /\ nitems = 0
    /\ failedItems = {}
    /\ addedAt = [i \in ItemIds |-> 0]
    /\ processor = "none"
    /\ firstPassed = "none"
    /\ passedProcs = {}
    /\ invoked = <<>>

\* lines 278-284: the batch object, and with it its processor, is created by
\* the first call for the type and never replaced
ProcessorOf_latest(current, passed) == passed
ProcessorOf(current, passed) == IF current = "none" THEN passed ELSE current

\* line 295: the batch is full
Full_late(its) == Len(its) > maxBatchSize
Full(its) == Len(its) >= maxBatchSize

\* the catch block of processBatch: reject the items that have a reject
\* function at this moment
RejectAll(ps, its, withHandlers) ==
    [i \in ItemIds |->
        IF i \in Range(its) /\ i \in withHandlers /\ ps[i].state = "pending"
        THEN [ps[i] EXCEPT !.state = "rejected"] ELSE ps[i]]
\* lines 324-328: resolve each item with results[index]
ResolveAll_reversed(ps, its, b) ==
    [i \in ItemIds |->
        IF i \in Range(its) /\ ps[i].state = "pending"
        THEN [state |-> "resolved", batch |-> b,
              pos |-> Len(its) + 1 - (CHOOSE k \in DOMAIN its : its[k] = i)]
        ELSE ps[i]]
ResolveAll(ps, its, b) ==
    [i \in ItemIds |->
        IF i \in Range(its) /\ ps[i].state = "pending"
        THEN [state |-> "resolved", batch |-> b,
              pos |-> CHOOSE k \in DOMAIN its : its[k] = i]
        ELSE ps[i]]

\* the timer: time does not pass an armed deadline without the timer firing,
\* and does not stop before an armed deadline
BatchTick ==
    /\ batch.timeout = 0 => now < MaxBatchClock
    /\ batch.timeout # 0 => now < batch.timeout
    /\ now' = now + 1
    /\ UNCHANGED batchVars

\* processBatch up to `await batch.processor(items)`: the processor is called
\* with the items; it returns a promise, or throws at once
ProcessBatch(its, cause, withHandlers, ps, proc) ==
    /\ batch' = [items |-> <<>>, timeout |-> 0]
    /\ flushlog' = Append(flushlog, Flush(its, cause, now))
    /\ invoked' = Append(invoked, proc)
    /\ \/ /\ flights' = flights \cup {[batch |-> Len(flushlog) + 1, items |-> its]}
          /\ pitems' = ps
          /\ UNCHANGED failedItems
       \/ /\ pitems' = RejectAll(ps, its, withHandlers)
          /\ failedItems' = failedItems \cup Range(its)
          /\ UNCHANGED flights

\* addToBatch, lines 277-308
AddToBatch ==
    /\ nitems < MaxItems
    /\ nitems' = nitems + 1
    /\ addedAt' = [addedAt EXCEPT ![nitems + 1] = now]
    /\ \E passed \in Processors :
          /\ processor' = ProcessorOf(processor, passed)
          /\ firstPassed' = IF nitems = 0 THEN passed ELSE firstPassed
          /\ passedProcs' = passedProcs \cup {passed}
    /\ LET item == nitems + 1
           its == Append(batch.items, item)
           \* the promise of the new item exists once addToBatch returns
           ps == [pitems EXCEPT ![item] = Pending]
       IN  IF Full(its)
           THEN ProcessBatch(its, "size", Range(batch.items), ps, processor')
           ELSE /\ batch' = [items |-> its, timeout |-> now + batchTimeout]
                /\ pitems' = ps
                /\ UNCHANGED <<flights, flushlog, failedItems, invoked>>
    /\ UNCHANGED now

\* lines 299-301: the timer fires
TimerFires ==
    /\ batch.timeout # 0
    /\ now >= batch.timeout
    /\ batch.items # <<>>
    /\ ProcessBatch(batch.items, "timer", Range(batch.items), pitems, processor)
    /\ UNCHANGED <<now, nitems, addedAt, processor, firstPassed, passedProcs>>

\* the processor's promise settles: the rest of processBatch
ProcessorSettles ==
    /\ \E f \in flights :
          /\ flights' = flights \ {f}
          /\ \/ /\ pitems' = ResolveAll(pitems, f.items, f.batch)
                /\ UNCHANGED failedItems
             \/ /\ pitems' = RejectAll(pitems, f.items, ItemIds)
                /\ failedItems' = failedItems \cup Range(f.items)
    /\ UNCHANGED <<now, batch, flushlog, nitems, addedAt,
                    processor, firstPassed, passedProcs, invoked>>

\* ------------------------------------------------------- specifications
vars == <<now, cacheVars, breakerVars, lookupVars, dedupVars, batchVars, variantVars, routeVars, monitorVars>>
Init ==
    CacheInit /\ BreakerInit /\ LookupInit /\ DedupInit /\ BatchInit /\ VariantInit
    /\ RouteInit /\ MonitorInit
\* the cache and the breaker on their own: no dictionary, no lookup
InitIdle == Init /\ db = {}

\* the cache store under any sequence of its operations
Next ==
    \/ Tick /\ UNCHANGED <<breakerVars, lookupVars, dedupVars, batchVars, variantVars, routeVars, monitorVars>>
    \/ Set /\ UNCHANGED <<breakerVars, lookupVars, dedupVars, batchVars, variantVars, routeVars, monitorVars>>
    \/ Get /\ UNCHANGED <<breakerVars, lookupVars, dedupVars, batchVars, variantVars, routeVars, monitorVars>>
    \/ Has /\ UNCHANGED <<breakerVars, lookupVars, dedupVars, batchVars, variantVars, routeVars, monitorVars>>
    \/ Delete /\ UNCHANGED <<breakerVars, lookupVars, dedupVars, batchVars, variantVars, routeVars, monitorVars>>
    \/ Clear /\ UNCHANGED <<breakerVars, lookupVars, dedupVars, batchVars, variantVars, routeVars, monitorVars>>
    \/ Cleanup /\ UNCHANGED <<breakerVars, lookupVars, dedupVars, batchVars, variantVars, routeVars, monitorVars>>
    \/ Preload /\ UNCHANGED <<breakerVars, lookupVars, dedupVars, batchVars, variantVars, routeVars, monitorVars>>
    \/ Import /\ UNCHANGED <<breakerVars, lookupVars, dedupVars, batchVars, variantVars, routeVars, monitorVars>>
    \/ Optimize /\ UNCHANGED <<breakerVars, lookupVars, dedupVars, batchVars, variantVars, routeVars, monitorVars>>
Spec == InitIdle /\ [][Next]_vars

\* one circuit breaker under overlapping calls
NextBreaker ==
    \/ BreakerTick /\ UNCHANGED <<cacheVars, lookupVars, dedupVars, batchVars, variantVars, routeVars, monitorVars>>
    \/ CallRefused /\ UNCHANGED <<cacheVars, lookupVars, dedupVars, batchVars, variantVars, routeVars, monitorVars>>
    \/ CallAdmitted /\ UNCHANGED <<cacheVars, lookupVars, dedupVars, batchVars, variantVars, routeVars, monitorVars>>
    \/ Succeed /\ UNCHANGED <<cacheVars, lookupVars, dedupVars, batchVars, variantVars, routeVars, monitorVars>>
    \/ Fail /\ UNCHANGED <<cacheVars, lookupVars, dedupVars, batchVars, variantVars, routeVars, monitorVars>>
SpecBreaker == InitIdle /\ [][NextBreaker]_vars
\* the same, with time passing; nothing obliges the downstream service to answer
SpecBreakerLive ==
    /\ InitIdle
    /\ [][NextBreaker]_vars
    /\ WF_vars(BreakerTick /\ UNCHANGED <<cacheVars, lookupVars, dedupVars, batchVars, variantVars, routeVars, monitorVars>>)

\* lookups, one at a time, over the definition cache and a dictionary
NextLookup ==
    \/ Tick /\ UNCHANGED <<breakerVars, lookupVars, dedupVars, batchVars, variantVars, routeVars, monitorVars>>
    \/ LookupStart /\ UNCHANGED <<breakerVars, dedupVars, batchVars, variantVars, routeVars, monitorVars>>
    \/ ExactQuery /\ UNCHANGED <<breakerVars, dedupVars, batchVars, variantVars, routeVars, monitorVars>>
    \/ BuildDefinition /\ UNCHANGED <<breakerVars, dedupVars, batchVars, variantVars, routeVars, monitorVars>>
    \/ FuzzyQuery /\ UNCHANGED <<breakerVars, dedupVars, batchVars, variantVars, routeVars, monitorVars>>
SpecLookup == Init /\ [][NextLookup]_vars

\* requests through the deduplication middleware, with the cleanup interval
NextDedup ==
    \/ SweepTick /\ UNCHANGED <<cacheVars, breakerVars, lookupVars, batchVars, variantVars, routeVars, monitorVars>>
    \/ Arrive /\ UNCHANGED <<cacheVars, breakerVars, lookupVars, batchVars, variantVars, routeVars, monitorVars>>
    \/ Complete /\ UNCHANGED <<cacheVars, breakerVars, lookupVars, batchVars, variantVars, routeVars, monitorVars>>
    \/ Sweep /\ UNCHANGED <<cacheVars, breakerVars, lookupVars, batchVars, variantVars, routeVars, monitorVars>>
SpecDedup == InitIdle /\ [][NextDedup]_vars

\* the batch of one type under addToBatch calls, its timer and its processor
NextBatch ==
    \/ BatchTick /\ UNCHANGED <<cacheVars, breakerVars, lookupVars, dedupVars, variantVars, routeVars, monitorVars>>
    \/ AddToBatch /\ UNCHANGED <<cacheVars, breakerVars, lookupVars, dedupVars, variantVars, routeVars, monitorVars>>
    \/ TimerFires /\ UNCHANGED <<cacheVars, breakerVars, lookupVars, dedupVars, variantVars, routeVars, monitorVars>>
    \/ ProcessorSettles /\ UNCHANGED <<cacheVars, breakerVars, lookupVars, dedupVars, variantVars, routeVars, monitorVars>>
SpecBatch == InitIdle /\ [][NextBatch]_vars
\* the same, with time passing and armed timers firing when due
SpecBatchLive ==
    /\ InitIdle
    /\ [][NextBatch]_vars
    /\ WF_vars(BatchTick /\ UNCHANGED <<cacheVars, breakerVars, lookupVars, dedupVars, variantVars, routeVars, monitorVars>>)
    /\ WF_vars(TimerFires /\ UNCHANGED <<cacheVars, breakerVars, lookupVars, dedupVars, variantVars, routeVars, monitorVars>>)

\* generateComprehensiveVariants called with any word, any number of times
NextVariants ==
    \/ Generate /\ UNCHANGED <<now, cacheVars, breakerVars, lookupVars, dedupVars, batchVars, routeVars, monitorVars>>
SpecVariants == InitIdle /\ [][NextVariants]_vars

\* the parser breaker under the calls of /api/full-analysis, and the calls the
\* other routes make to the parser and OCR services
NextRoutes ==
    \/ BreakerTick /\ UNCHANGED <<cacheVars, lookupVars, dedupVars, batchVars, variantVars, routeVars, monitorVars>>
    \/ CallRefused /\ UNCHANGED <<cacheVars, lookupVars, dedupVars, batchVars, variantVars, routeVars, monitorVars>>
    \/ CallAdmitted /\ UNCHANGED <<cacheVars, lookupVars, dedupVars, batchVars, variantVars, routeVars, monitorVars>>
    \/ Succeed /\ UNCHANGED <<cacheVars, lookupVars, dedupVars, batchVars, variantVars, routeVars, monitorVars>>
    \/ Fail /\ UNCHANGED <<cacheVars, lookupVars, dedupVars, batchVars, variantVars, routeVars, monitorVars>>
    \/ DirectCall /\ UNCHANGED <<cacheVars, lookupVars, dedupVars, batchVars, variantVars, monitorVars>>
SpecRoutes == InitIdle /\ [][NextRoutes]_vars

\* getHealthStatus called on a monitor holding any metrics
InitMonitor ==
    /\ CacheInit /\ BreakerInit /\ LookupInit /\ DedupInit /\ BatchInit /\ VariantInit
    /\ RouteInit /\ db = {}
    /\ metrics \in Metrics /\ health = "none"
NextMonitor ==
    \/ HealthCheck /\ UNCHANGED <<now, cacheVars, breakerVars, lookupVars, dedupVars, batchVars, variantVars, routeVars>>
SpecMonitor == InitMonitor /\ [][NextMonitor]_vars

\* ------------------------------------------------------------ cache claims

\* C1: after every completed mutating operation the number of stored entries
\* is at most maxSize.
C1_SizeAtMostCapacity == Len(cache) <= maxSize

\* C2: in a full store, a successful get(k) right before the set of a new key
\* protects k from eviction, however close in time the operations are.
C2_GetProtectsFromEviction ==
    [][(/\ ret.op = "get" /\ ret.ok
        /\ Len(cache) >= maxSize /\ Len(cache) >= 2
        /\ ret'.op = "set" /\ ~MapHas(cache, ret'.key))
       => (/\ MapHas(cache', ret.key)
           /\ MapGet(cache', ret.key).value = ret.val)]_vars

\* C3: setting maxSize + 1 distinct keys with no intervening get evicts exactly
\* one entry, the first-inserted key; the other maxSize keys stay stored.
C3_FirstInsertedEvicted ==
    (setsOnly /\ Len(setSeq) = maxSize + 1)
    => /\ MapKeys(cache) = {setSeq[i] : i \in 2..(maxSize + 1)}
       /\ Len(cache) = maxSize
       /\ stats.evictions = 1

\* C4: a key set with TTL T at time t0 expires at t0 + T; get and has report it
\* present at every time before its expiry and absent from its expiry on; no
\* other operation moves an expiry; a cleanup leaves no expired entry and
\* removes nothing else.
IsOp(name) == nops' = nops + 1 /\ ret'.op = name
C4_SetStep ==
    IsOp("set") => /\ MapHas(cache', ret'.key)
                   /\ MapGet(cache', ret'.key).expiry = now + ret'.n
C4_ReadStep ==
    ((IsOp("get") \/ IsOp("has")) /\ MapHas(cache, ret'.key))
    => LET item == MapGet(cache, ret'.key)
       IN  /\ ret'.ok <=> now < item.expiry
           /\ IsOp("get") => ret'.val = (IF now < item.expiry THEN item.value ELSE Null)
           /\ (IsOp("get") /\ now >= item.expiry) => ~MapHas(cache', ret'.key)
C4_CleanupStep ==
    IsOp("cleanup")
    => /\ \A i \in DOMAIN cache' : now < cache'[i].expiry
       /\ cache' = SelectSeq(cache, LAMBDA e : now < e.expiry)
C4_ExpiryKept ==
    (nops' = nops \/ ret'.op \in {"get", "has", "delete", "clear", "cleanup", "optimize"})
    => \A k \in MapKeys(cache) \cap MapKeys(cache') :
          MapGet(cache', k).expiry = MapGet(cache, k).expiry
C4_TTL == [][C4_SetStep /\ C4_ReadStep /\ C4_CleanupStep /\ C4_ExpiryKept]_vars
\* a key stored by set (only set stores [val |-> 2]) is reported absent by has
\* once its expiry is reached
C4_Witness ==
    /\ ret.op = "has" /\ ~ret.ok
    /\ MapHas(cache, ret.key)
    /\ MapGet(cache, ret.key).value = [val |-> 2]
    /\ now >= MapGet(cache, ret.key).expiry

\* ---------------------------------------------------------- breaker claims
Settled(i) == calls[i].pc = "running" /\ calls'[i].pc = "idle"
SucceedStep(i) == Settled(i) /\ bret'.how = "result"
FailStep(i) == Settled(i) /\ consec' = consec + 1
CallStep == ncalls' = ncalls + 1

\* C8: from CLOSED the breaker opens after failureThreshold consecutive failed
\* calls and only then: a successful call in CLOSED resets the failure count,
\* and failures separated by successes never open the breaker.
C8_OpensOnConsecutiveFailures ==
    [][~overlap' =>
        \A i \in Slots :
           /\ (FailStep(i) /\ breaker.state = "CLOSED" /\ consec' >= failureThreshold)
              => breaker'.state = "OPEN"
           /\ (FailStep(i) /\ breaker.state = "CLOSED" /\ breaker'.state = "OPEN")
              => consec' >= failureThreshold
           /\ (SucceedStep(i) /\ breaker.state = "CLOSED")
              => breaker'.failures = 0]_vars

\* C9: while the breaker is OPEN and now < nextAttempt, a call never invokes
\* the operation: it ends with the fallback's outcome if a fallback was given
\* and with the service-unavailable error otherwise, and leaves the breaker
\* (state, failures, nextAttempt) unchanged.
C9_OpenRefuses ==
    [][(CallStep /\ breaker.state = "OPEN" /\ now < breaker.nextAttempt)
       => /\ calls' = calls
          /\ breaker' = breaker
          /\ ~bret'.attempted
          /\ bret'.how \in (IF bret'.fallback THEN FallbackOutcomes ELSE {"unavailable"})]_vars
C9_Witness ==
    /\ breaker.state = "OPEN" /\ now < breaker.nextAttempt
    /\ bret.how = "unavailable" /\ ~bret.attempted

\* C10: the first call made once resetTimeout has elapsed since the breaker
\* opened moves it to HALF_OPEN and is attempted; if that call succeeds the
\* breaker is CLOSED with 0 failures; if it fails the breaker is OPEN again
\* with nextAttempt = (time of that failure) + resetTimeout.
C10_ProbeAfterReset ==
    [][~overlap' =>
        /\ (CallStep /\ breaker.state = "OPEN" /\ now >= openedAt + resetTimeout)
           => /\ breaker'.state = "HALF_OPEN"
              /\ bret'.attempted
              /\ \E i \in Slots : calls'[i].pc = "running" /\ calls'[i].probe
        /\ \A i \in Slots :
              /\ (SucceedStep(i) /\ calls[i].probe)
                 => breaker'.state = "CLOSED" /\ breaker'.failures = 0
              /\ (FailStep(i) /\ calls[i].probe)
                 => /\ breaker'.state = "OPEN"
                    /\ breaker'.nextAttempt = now + resetTimeout]_vars

\* C11: one probe per HALF_OPEN window: between the breaker entering HALF_OPEN
\* and the settlement of that probe, no further guarded operation is started,
\* whatever the interleaving of callers.
C11_OneProbePerWindow ==
    [][(breaker.state = "HALF_OPEN" /\ \E i \in Running : calls[i].probe)
       => ~(CallStep /\ bret'.attempted)]_vars

\* C12: when an attempted operation fails, the failure is counted, and the
\* caller gets the fallback's outcome (its result or its own failure) if a
\* fallback was supplied; the operation's error reaches the caller only when
\* no fallback was supplied.
C12_FailureCountedAndFallback ==
    [][\A i \in Slots :
          FailStep(i)
          => /\ breaker'.failures = breaker.failures + 1
             /\ bret'.attempted
             /\ bret'.fallback = calls[i].fallback
             /\ calls[i].fallback => bret'.how \in FallbackOutcomes
             /\ ~calls[i].fallback => bret'.how = "error"]_vars
C12_Witness ==
    /\ bret.attempted /\ bret.fallback /\ bret.how = "fallback"
    /\ breaker.failures > 0

\* --------------------------------------------- claims on deduplication
Arrives(id) == reqs[id].state = "none" /\ reqs'[id].state # "none"
Completes(id) == reqs[id].state = "running" /\ reqs'[id].state = "done"
KeyOf(id) == generateRequestKey(reqs[id].req)
RunningRequests == {id \in RequestIds : reqs[id].state = "running"}
WaitingOn(id) == {w \in RequestIds : reqs[w].state = "waiting" /\ reqs[w].owner = id}

C14_PromiseSettledOnCompletion ==
    [][\A id \in RequestIds :
          Completes(id) => promises'[id] \in {"resolved", "rejected"}]_vars

\* C15: at any time at most one operation per request signature is executing,
\* in every interleaving of arrivals, completions and cleanup runs.
C15_OnePerSignature ==
    \A i, j \in RunningRequests : KeyOf(i) = KeyOf(j) => i = j

\* C15, amended: two operations with one signature execute at the same time
\* only after the cleanup removed the queue entry of an operation with that
\* signature.
C15_OnePerSignatureUnlessSwept ==
    \A i, j \in RunningRequests :
        (KeyOf(i) = KeyOf(j) /\ i # j) => \E a \in swept : KeyOf(a) = KeyOf(i)
C15_Witness ==
    /\ swept # {}
    /\ \E id \in RunningRequests : id \notin swept /\ WaitingOn(id) # {}

\* C16: a queue entry is removed only by the completion of the operation that
\* created it, or by the cleanup once it is older than maxAge; the completion
\* of one operation never removes the entry another operation created.
C16_RemovedByOwnerOrSweep ==
    [][\A i \in DOMAIN requestQueue :
          LET e == requestQueue[i]
          IN  (\A j \in DOMAIN requestQueue' : requestQueue'[j].promise # e.promise)
              => \/ Completes(e.promise)
                 \/ (Stale(e, now) /\ reqs' = reqs)]_vars

\* C17: requests are coalesced only if they agree on method, path and every
\* parameter that affects the result.
C17_CoalescedAgree ==
    \A w \in RequestIds :
        reqs[w].state = "waiting" => reqs[w].req = reqs[reqs[w].owner].req

\* ------------------------------------------------ claims on the batches
AddStep == nitems' = nitems + 1
FireStep == nitems' = nitems /\ flushlog' # flushlog

\* C18: the submission that brings an empty batch to maxBatchSize items
\* invokes the processor with exactly those items, in that step and without
\* the timer; one item followed by nothing for batchTimeout invokes the
\* processor with exactly that item.
C18_FlushOnSizeOrTimer ==
    [][/\ (AddStep /\ Len(batch.items) + 1 = maxBatchSize)
          => /\ flushlog' = Append(flushlog,
                                   Flush(Append(batch.items, nitems + 1), "size", now))
             /\ batch'.items = <<>>
       /\ (AddStep /\ batch.items = <<>> /\ maxBatchSize > 1)
          => /\ flushlog' = flushlog
             /\ batch' = [items |-> <<nitems + 1>>, timeout |-> now + batchTimeout]
       /\ (Len(batch.items) = 1 /\ now = addedAt[batch.items[1]] + batchTimeout)
          => /\ now' = now
             /\ FireStep => flushlog' = Append(flushlog, Flush(batch.items, "timer", now))
       /\ (FireStep /\ Len(batch.items) = 1)
          => now = addedAt[batch.items[1]] + batchTimeout]_vars
C18_Witness ==
    /\ \E i \in DOMAIN flushlog :
          flushlog[i].cause = "size" /\ Len(flushlog[i].items) = maxBatchSize
    /\ \E i \in DOMAIN flushlog :
          /\ flushlog[i].cause = "timer" /\ Len(flushlog[i].items) = 1
          /\ flushlog[i].at = addedAt[flushlog[i].items[1]] + batchTimeout

\* C19: the timer runs from the first item of the batch: a batch is flushed
\* no later than batchTimeout after its first item was submitted.
C19_FlushedWithinTimeoutOfFirst ==
    /\ batch.items # <<>> => now <= addedAt[batch.items[1]] + batchTimeout
    /\ \A i \in DOMAIN flushlog :
          flushlog[i].at <= addedAt[flushlog[i].items[1]] + batchTimeout

\* C20: when the processor fails for a flushed batch, the promise of every
\* item of that batch is rejected and none stays pending.
C20_FailureRejectsAll ==
    \A i \in failedItems : pitems[i].state = "rejected"

\* C21: an item's promise is settled only after the processor call for its
\* whole batch has completed, and on success the i-th item of the flushed
\* batch is resolved with the i-th element of the processor's result.
C21_SettledAfterBatchPositional ==
    /\ \A f \in flights : \A k \in DOMAIN f.items : pitems[f.items[k]].state = "pending"
    /\ \A i \in Range(batch.items) : pitems[i].state = "pending"
    /\ \A i \in ItemIds :
          pitems[i].state = "resolved"
          => /\ pitems[i].batch \in DOMAIN flushlog
             /\ \A f \in flights : f.batch # pitems[i].batch
             /\ pitems[i].pos \in DOMAIN flushlog[pitems[i].batch].items
             /\ flushlog[pitems[i].batch].items[pitems[i].pos] = i
C21_Witness ==
    \E i \in ItemIds :
        /\ pitems[i].state = "resolved" /\ pitems[i].pos = 2
        /\ Len(flushlog[pitems[i].batch].items) = maxBatchSize

\* C22: whatever operations are interleaved, hits + misses is the number of
\* get calls made, and the stored hitRate is hits / (hits + misses) as a
\* percentage, 0 before the first get.
C22_HitRateAccounting ==
    /\ stats.hits + stats.misses = gets
    /\ stats.hitRate.den > 0
    /\ stats.hitRate.num * gets = stats.hits * 100 * stats.hitRate.den
    /\ gets = 0 => stats.hitRate.num = 0
C22_Witness == stats.hits = 1 /\ stats.misses = 1 /\ nops = 3

\* ------------------------------------------------ claims on the lookup
\* a step that starts getDefinitionAdvanced(word)
StartOf(word) == nlook' = nlook + 1 /\ lret'.word = word
\* a step in which buildDefinitionFromEntry returns a record
Resolved == lk.pc = "build" /\ lk'.pc = "done" /\ lret'.how \in {"exact", "fuzzy"}

\* C5: when a lookup of w found no match in any tier, a second lookup of w made
\* right after it, with w's entry still stored and unexpired, issues no
\* database query and is answered from the cached absent marker.
C5_NegativeCacheIdempotent ==
    [][(/\ lk.pc = "done"
        /\ lret.how = "absent"
        /\ StartOf(lret.word)
        /\ CacheHit(TheStore, lret.word, now)
        /\ MapGet(cache, lret.word).value = Null)
       => (lk'.pc = "done" /\ lret'.how = "cache" /\ qlog' = <<>>)]_vars

\* C6: when a lookup of q resolves through the matched candidate v, the record
\* (original query q, found via v) is stored under both q and v; and a lookup
\* of a key that holds a record, unexpired, returns that record without a
\* database query.
C6_StoredUnderBoth ==
    [][(Resolved =>
          LET q == lk.word
              v == lk.matched
              rec == lret'.result
          IN  /\ rec = Definition(q, v, lk.entryId)
              /\ MapHas(cache', q) /\ MapGet(cache', q).value = rec
              /\ MapHas(cache', v) /\ MapGet(cache', v).value = rec)
       /\ \A w \in Words :
             (/\ lk.pc = "done"
              /\ StartOf(w)
              /\ CacheHit(TheStore, w, now)
              /\ Truthy(MapGet(cache, w).value))
             => /\ lk'.pc = "done"
                /\ qlog' = <<>>
                /\ lret' = Returned(w, MapGet(cache, w).value, "cache")]_vars

\* C7: the search queries of one lookup
CurrentWord == IF lk.pc = "done" THEN lret.word ELSE lk.word
Searches == SelectSeq(qlog, LAMBDA x : x.kind # "entry")
Shape(log) == [i \in DOMAIN log |-> <<log[i].kind, log[i].arg>>]
FixedSequence(w) ==
    <<<<"exact", w>>>>
    \o [i \in 1..Min(TopN, Len(generateComprehensiveVariants(w))) |->
           <<"exact", generateComprehensiveVariants(w)[i]>>]
    \o <<<<"fuzzy", w>>>>
IsPrefix(a, b) == Len(a) <= Len(b) /\ SubSeq(b, 1, Len(a)) = a

\* C7: the search queries of one uncached lookup form a prefix of: exact match
\* on the original query, exact match on the top-N candidates in generation
\* order, one fuzzy query on the original query; nothing is queried after an
\* exact hit, and the fuzzy query comes only after exact queries that all
\* found nothing.
C7_StopsAtFirstHit ==
    /\ IsPrefix(Shape(Searches), FixedSequence(CurrentWord))
    /\ \A i \in 1..(Len(Searches) - 1) : ~Searches[i].hit
    /\ \A i \in DOMAIN Searches :
          Searches[i].kind = "fuzzy"
          => \A j \in 1..(i - 1) : ~Searches[j].hit /\ ~Searches[j].failed

\* C7, amended: the same fixed sequence; each exact or fuzzy hit is followed
\* by the entry query that assembles the record; the lookup stops at the first
\* hit whose record is assembled and at the first failing search query; the
\* fuzzy query comes only after exact queries none of which failed or led to
\* a record.
C7_StopsAtFirstAssembledHit ==
    /\ IsPrefix(Shape(Searches), FixedSequence(CurrentWord))
    /\ \A i \in 1..(Len(qlog) - 1) :
          /\ qlog[i].kind = "entry" => qlog[i].failed
          /\ qlog[i].kind # "entry" => ~qlog[i].failed
          /\ (qlog[i].kind # "entry" /\ qlog[i].hit)
             => /\ qlog[i + 1].kind = "entry"
                /\ qlog[i].kind = "exact" => qlog[i + 1].arg = qlog[i].arg
    /\ \A i \in DOMAIN qlog :
          qlog[i].kind = "entry"
          => i > 1 /\ qlog[i - 1].kind # "entry" /\ qlog[i - 1].hit
    /\ (lk.pc = "done" /\ lret.how \in {"exact", "fuzzy"})
       => (qlog # <<>> /\ qlog[Len(qlog)].kind = "entry" /\ ~qlog[Len(qlog)].failed)

\* an exact hit whose record could not be assembled, and the lookup went on to
\* the fuzzy query
C7_Witness ==
    \E i \in 1..(Len(qlog) - 2) :
        /\ qlog[i].kind = "exact" /\ qlog[i].hit
        /\ qlog[i + 1].kind = "entry" /\ qlog[i + 1].failed
        /\ qlog[Len(qlog)].kind = "fuzzy"

\* C23: getDefinitionAdvanced never throws; a lookup that finds nothing
\* returns the not-found result (null, line 673), and the result of a lookup
\* whose backing-store query failed is a different one, so that the caller can
\* tell "word unknown" from "system error".
C23_NotFoundDistinctFromError ==
    /\ lret.how = "absent" => lret.result = Null
    /\ lret.how = "error" => lret.result # Null

\* C24: every call made through executeWithCircuitBreaker eventually settles,
\* even if the downstream service never responds: the call is bounded by a
\* timeout, and the timed-out call is counted as a failure of the breaker.
C24_CallsEventuallySettle ==
    \A i \in Slots : (calls[i].pc = "running") ~> (calls[i].pc = "idle")

\* C25: generateComprehensiveVariants(w) is a pure function of w: a call with
\* the same w returns the same candidates in the same order, the list has no
\* duplicates and starts with w itself, and the call touches neither the cache
\* nor the backing store.
NoDuplicates(list) == \A i, j \in DOMAIN list : list[i] = list[j] => i = j
GenerateStep == gcalled' /\ <<gword, gout, gcalled>>' # <<gword, gout, gcalled>>
C25_Deterministic ==
    /\ (gcalled /\ gword' = gword) => gout' = gout
    /\ GenerateStep => UNCHANGED <<cache, accessOrder, stats, gets, db>>
C26_EvictingSet ==
    \E k \in MapKeys(cache) :
        /\ MapKeys(cache') = (MapKeys(cache) \ {k}) \cup {ret'.key}
        /\ MapHas(accessOrder, k)
        /\ \A j \in DOMAIN accessOrder : MapGet(accessOrder, k).time <= accessOrder[j].time
        /\ stats'.evictions = stats.evictions + 1
C26_SetEvictsExactlyOne ==
    [][IsOp("set")
       => /\ MapHas(cache', ret'.key)
          /\ (~MapHas(cache, ret'.key) /\ Len(cache) = maxSize) => C26_EvictingSet
          /\ MapHas(cache, ret'.key)
             => /\ MapKeys(cache') = MapKeys(cache)
                /\ stats'.evictions = stats.evictions]_vars

\* C27: get(key) of a stored entry that has not expired returns its value,
\* adds one to hits only, and sets the key's access time to the current time
\* without removing anything; get(key) of an expired entry returns absent, adds
\* one to misses only and removes the key from the entry map and from the
\* access-order map; get of an unknown key returns absent, adds one to misses
\* and changes no entry.
Without(m, key) == SelectSeq(m, LAMBDA e : e.key # key)
C27_Hit(key) ==
    /\ ret'.ok /\ ret'.val = MapGet(cache, key).value
    /\ stats'.hits = stats.hits + 1 /\ stats'.misses = stats.misses
    /\ cache' = cache
    /\ MapKeys(accessOrder') = MapKeys(accessOrder) \cup {key}
    /\ MapGet(accessOrder', key).time = now
    /\ Without(accessOrder', key) = Without(accessOrder, key)
C27_Expired(key) ==
    /\ ~ret'.ok /\ ret'.val = Null
    /\ stats'.misses = stats.misses + 1 /\ stats'.hits = stats.hits
    /\ cache' = Without(cache, key)
    /\ accessOrder' = Without(accessOrder, key)
C27_Unknown(key) ==
    /\ ~ret'.ok /\ ret'.val = Null
    /\ stats'.misses = stats.misses + 1 /\ stats'.hits = stats.hits
    /\ cache' = cache
    /\ accessOrder' = accessOrder
C27_GetOutcomes ==
    [][IsOp("get")
       => /\ stats'.evictions = stats.evictions
          /\ IF ~MapHas(cache, ret'.key) THEN C27_Unknown(ret'.key)
             ELSE IF now < MapGet(cache, ret'.key).expiry THEN C27_Hit(ret'.key)
             ELSE C27_Expired(ret'.key)]_vars
\* a get has just removed an expired entry: the entry count recorded by the
\* last writing operation is now larger than the number of entries
C27_Witness ==
    /\ ret.op = "get" /\ ~ret.ok
    /\ stats.misses = 1 /\ stats.hits = 1
    /\ stats.size > Len(cache)

\* C28: every definition record returned by getDefinitionAdvanced(q), freshly
\* resolved or served from the cache, carries q as its original query, after
\* any sequence of earlier lookups.
ReturnedDefinition == lret.how \in {"cache", "particle", "exact", "fuzzy"} /\ lret.result # Null
C28_CarriesOriginalQuery ==
    ReturnedDefinition => lret.result.originalQuery = lret.word

\* C28, amended: a freshly resolved record carries q as its original query; a
\* record served from the cache carries the query of the lookup that resolved
\* it, which is q itself or a query that was matched through q.
C28_CarriesQueryOrMatchedIt ==
    ReturnedDefinition
    => \/ lret.result.originalQuery = lret.word
       \/ lret.how = "cache" /\ lret.result.foundVia = lret.word
\* a lookup of a matched variant served from the cache with the record of the
\* lookup that resolved it
C28_Witness ==
    /\ ReturnedDefinition /\ lret.how = "cache"
    /\ lret.result.originalQuery # lret.word

\* C29: one uncached lookup issues at most (number of exact-tier strings
\* tried) + 1 backing-store queries in all: one exact query for each string
\* tried and at most one fuzzy query, and no string is queried twice.
QueriesOf(kind) == {i \in DOMAIN qlog : qlog[i].kind = kind}
C29_QueriesBounded ==
    /\ Len(qlog) <= Cardinality({qlog[i].arg : i \in QueriesOf("exact")}) + 1
    /\ Cardinality(QueriesOf("fuzzy")) <= 1
    /\ \A i, j \in QueriesOf("exact") : qlog[i].arg = qlog[j].arg => i = j

\* C30: every call the server makes to a downstream service (parser, OCR) goes
\* through that service's circuit breaker: the call is not attempted while the
\* breaker refuses calls, and each failed call adds one to the breaker's
\* failure count.
DirectStep == outcall'.n = outcall.n + 1
AdmittedStep == ncalls' = ncalls + 1 /\ bret'.how = "pending"
FailedStep == \E i \in Slots : FailStep(i)
C30_AllCallsThroughBreaker ==
    [][/\ AdmittedStep => ~ShortCircuit(breaker, now)
       /\ FailedStep => breaker'.failures = breaker.failures + 1
       /\ DirectStep => ~ShortCircuit(BreakerOf(outcall'.service, breaker), now)
       /\ (DirectStep /\ outcall'.failed)
          => BreakerOf(outcall'.service, breaker').failures
             = BreakerOf(outcall'.service, breaker).failures + 1]_vars

\* C31: optimize(f) on a store holding more than floor(maxSize * f) entries
\* removes exactly size - floor(maxSize * f) entries, the least recently
\* accessed ones, returns that number and leaves at most floor(maxSize * f)
\* entries; on a store already within the target it removes nothing and
\* returns 0.
AccessTime(k) == MapGet(accessOrder, k).time
C31_Removes(targetSize) ==
    /\ ret'.n = Len(cache) - targetSize
    /\ Len(cache') = targetSize
    /\ cache' = SelectSeq(cache, LAMBDA e : e.key \in MapKeys(cache'))
    /\ \A k \in MapKeys(cache) \ MapKeys(cache') :
          /\ MapHas(accessOrder, k)
          /\ \A k2 \in MapKeys(cache') : MapHas(accessOrder, k2) /\ AccessTime(k) <= AccessTime(k2)
C31_OptimizeToTarget ==
    [][IsOp("optimize")
       => LET targetSize == (maxSize * ret'.val) \div 100
          IN  IF Len(cache) > targetSize THEN C31_Removes(targetSize)
              ELSE ret'.n = 0 /\ cache' = cache /\ accessOrder' = accessOrder]_vars
\* optimize has removed the older of two entries after a get refreshed the
\* first-inserted one
C31_Witness ==
    /\ ret.op = "optimize" /\ ret.n = 1
    /\ stats.hits = 1
    /\ Len(cache) = 1 /\ now > 1

\* C32: preload(entries) inserts every supplied key that is not already
\* present, never overwrites the value stored for a key that is present and
\* has not expired, and returns the number of keys it inserted.
Present(k) == MapHas(cache, k) /\ now < MapGet(cache, k).expiry
C32_PreloadSkipsPresent ==
    [][IsOp("preload")
       => LET entries == ret'.val
              supplied == {entries[i].key : i \in DOMAIN entries}
          IN  /\ ret'.n = Cardinality({k \in supplied : ~Present(k)})
              /\ \A i \in DOMAIN entries :
                    ~Present(entries[i].key)
                    => /\ MapHas(cache', entries[i].key)
                       /\ MapGet(cache', entries[i].key).value = entries[i].value
              /\ \A k \in supplied :
                    (Present(k) /\ MapHas(cache', k))
                    => MapGet(cache', k) = MapGet(cache, k)]_vars

\* C33: after any sequence of set, get, delete, clear, cleanup, preload, import
\* and optimize, every key of the entry map has a timestamp in the
\* access-order map.
C33_EntriesHaveAccessOrder == MapKeys(cache) \subseteq MapKeys(accessOrder)
\* a store holding two entries after an import that followed a miss
C33_Witness ==
    /\ ret.op = "import" /\ ret.n >= 1
    /\ stats.misses = 1
    /\ Len(cache) = 2

\* C34: getHealthStatus returns 'critical' exactly when the error rate is
\* above 10 % or the memory percentage above 90 or the average response time
\* above 10000 ms; otherwise 'warning' exactly when the error rate is above
\* 5 % or the memory percentage above 80 or the average response time above
\* 5000 ms; otherwise 'healthy'.
Above(errorPercent, memoryPercent, milliseconds) ==
    \/ metrics.errors * 100 > errorPercent * metrics.total
    \/ metrics.percentage.num > memoryPercent * metrics.percentage.den
    \/ metrics.averageResponseTime.num > milliseconds * metrics.averageResponseTime.den
C34_HealthThresholds ==
    health # "none"
    => /\ health = "critical" <=> Above(10, 90, 10000)
       /\ health = "warning" <=> (~Above(10, 90, 10000) /\ Above(5, 80, 5000))
       /\ health = "healthy" <=> ~Above(5, 80, 5000)
\* the status of a monitor whose error rate is exactly 5 %, with the memory
\* percentage and the mean response time on their warning thresholds
C34_Witness ==
    /\ health = "healthy"
    /\ metrics.total = 20 /\ metrics.errors = 1
    /\ metrics.percentage = Ratio(80, 1)
    /\ metrics.averageResponseTime = Ratio(5000, 1)

\* C35: after every completed cache operation the size counter of the
\* statistics equals the number of entries the store holds.
C35_SizeCounterExact == stats.size = Len(cache)

\* C36: in every breaker state reached under overlapping calls, the breaker is
\* CLOSED if and only if its failure counter is below failureThreshold; OPEN
\* and HALF_OPEN breakers have at least failureThreshold failures.
C36_ClosedIffBelowThreshold ==
    breaker.state = "CLOSED" <=> breaker.failures < failureThreshold
\* a breaker that opened, was closed by a probe and has failed once since,
\* with calls that overlapped
C36_Witness ==
    /\ breaker.state = "CLOSED" /\ breaker.failures = 1
    /\ openedAt > 0 /\ overlap

\* C37: with overlapping calls of any duration nextAttempt never moves
\* backwards: once the breaker is OPEN with nextAttempt = t, no later failure
\* of any call sets nextAttempt to a value smaller than t.
C37_NextAttemptMonotonic ==
    [][(breaker.state = "OPEN" /\ FailedStep)
       => breaker'.nextAttempt >= breaker.nextAttempt]_vars

\* C38: the breaker moves from HALF_OPEN to CLOSED only on the success of a
\* call that was admitted while the breaker was HALF_OPEN (a probe); the late
\* success of a call that started while the breaker was CLOSED never closes it.
C38_OnlyProbeCloses ==
    [][(breaker.state = "HALF_OPEN" /\ breaker'.state = "CLOSED")
       => \E i \in Slots : SucceedStep(i) /\ calls[i].seen = "HALF_OPEN"]_vars

\* C39: between batch operations, a batch with at least one pending item has
\* fewer than maxBatchSize pending items and an armed flush timer; hence, if
\* timers fire, every submitted item is eventually handed to the processor.
Submitted(i) == pitems[i].state # "none"
Handed(i) == \E k \in DOMAIN flushlog : i \in Range(flushlog[k].items)
C39_PendingHasTimer ==
    batch.items # <<>> => Len(batch.items) < maxBatchSize /\ batch.timeout # 0
C39_PendingArmedAndFlushed ==
    /\ []C39_PendingHasTimer
    /\ \A i \in ItemIds : Submitted(i) ~> Handed(i)
\* a timer that was re-armed by a second item has fired and handed both items
\* to the processor
C39_Witness ==
    \E k \in DOMAIN flushlog :
        /\ flushlog[k].cause = "timer"
        /\ Len(flushlog[k].items) = 2
        /\ flushlog[k].at > addedAt[flushlog[k].items[1]] + batchTimeout

\* C40: the processor of a batch type is fixed by the first addToBatch call
\* made for it: every batch is processed by that function, and a different
\* processor passed in a later call is never invoked.
C40_ProcessorFixedByFirstCall ==
    /\ nitems > 0 => processor = firstPassed
    /\ \A k \in DOMAIN invoked :
          /\ invoked[k] = firstPassed
          /\ invoked[k] \notin passedProcs \ {firstPassed}
\* two batches have been processed after callers passed both functions
C40_Witness ==
    /\ Len(invoked) >= 2
    /\ passedProcs = Processors
    /\ firstPassed = "processB"

====
